---- MODULE Spec2Model ----
(***************************************************************************)
(* Model of MonitorEmpleoCloud (src/.github/workflows/monitor_cloud.py):   *)
(* a single-shot job-listing monitor.  A process constructs the monitor    *)
(* (loading the state file), fetches and extracts the listings, diffs them *)
(* against the loaded state by fingerprint, notifies by Telegram and       *)
(* rewrites the state file.  The external scheduler starts one process     *)
(* after another; the state file is the only thing that survives a run.    *)
(*                                                                         *)
(* Text is modelled by TLA+ strings, which hold ASCII only: of str.lower()  *)
(* and str.strip() the model has what they do on ASCII text.  Lists are     *)
(* sequences and dicts records; a value read from the state file keeps its  *)
(* JSON type.  MD5 is modelled as an injective symbolic digest of its input.*)
(***************************************************************************)
EXTENDS Integers, Sequences, FiniteSets, TLC

VARIABLES
    archivo,             \* the state file empleos_anteriores.json on disk
    pc,                  \* position of the current process
    reloj,               \* number of processes started so far
    telegram_bot_token,  \* self.telegram_bot_token
    telegram_chat_id,    \* self.telegram_chat_id
    empleos_anteriores,  \* self.empleos_anteriores, as loaded by __init__
    ofertas_actuales,    \* local of ejecutar
    nuevas_ofertas,      \* local of ejecutar
    traza,               \* calls made by ejecutar in this run, in order
    posts,               \* requests.post calls made in this run
    archivo_previo,      \* history: the state file when this process started
    ultimo_fetch,        \* history: listings of the latest earlier run whose fetch was non-empty
    penultimo,           \* history: fingerprints of the non-empty fetch before ultimo_fetch
    escrituras_ok,       \* history: no state write has failed so far
    llamada,             \* arguments of a direct call of one method
    resultado            \* what that call returned

vars == <<archivo, pc, reloj, telegram_bot_token, telegram_chat_id,
          empleos_anteriores, ofertas_actuales, nuevas_ofertas, traza, posts,
          archivo_previo, ultimo_fetch, penultimo, escrituras_ok, llamada, resultado>>

-----------------------------------------------------------------------------
(* Bounds *)

MaxEjecuciones == 2
MaxHistoria == 3
MaxElementos == 2
MaxLista == 3
MaxTexto == 2
MaxHref == 4
MaxNuevas == 12

-----------------------------------------------------------------------------
(* Python str operations used by the program *)

Mayusculas == "ABCDEFGHIJKLMNOPQRSTUVWXYZ"
Minusculas == "abcdefghijklmnopqrstuvwxyz"

Car(s, i) == SubSeq(s, i, i)

\* The control characters U+000B and U+001C to U+001F
VT == ""
FS == ""
GS == ""
RS == ""
US == ""

\* str.isspace() of one ASCII character
EsEspacio(c) == c \in {" ", "\t", "\n", "\r", "\f", VT, FS, GS, RS, US}

\* str.lower() of an upper-case letter
TablaLower ==
    [c \in {Car(Mayusculas, i) : i \in 1..Len(Mayusculas)} |->
        Car(Minusculas, CHOOSE i \in 1..Len(Mayusculas) : Car(Mayusculas, i) = c)]

LowerCar(c) == IF c \in DOMAIN TablaLower THEN TablaLower[c] ELSE c

RECURSIVE Lower(_)
Lower(s) == IF Len(s) = 0 THEN "" ELSE LowerCar(Car(s, 1)) \o Lower(SubSeq(s, 2, Len(s)))

RECURSIVE LStrip(_)
LStrip(s) ==
    IF Len(s) > 0 /\ EsEspacio(Car(s, 1)) THEN LStrip(SubSeq(s, 2, Len(s))) ELSE s

RECURSIVE RStrip(_)
RStrip(s) ==
    IF Len(s) > 0 /\ EsEspacio(Car(s, Len(s))) THEN RStrip(SubSeq(s, 1, Len(s) - 1)) ELSE s

Strip(s) == RStrip(LStrip(s))

StartsWith(s, prefijo) ==
    Len(s) >= Len(prefijo) /\ SubSeq(s, 1, Len(prefijo)) = prefijo

RECURSIVE Une(_)
Une(cs) == IF cs = <<>> THEN "" ELSE Head(cs) \o Une(Tail(cs))

\* hashlib.md5(texto.encode()).hexdigest(): a deterministic digest, taken as injective
Md5(texto) == "md5(" \o texto \o ")"

-----------------------------------------------------------------------------
(* __init__ *)

url_base == "https://www.santafe.gob.ar/simtyss/portalempleo/"
url_busqueda == url_base \o "ofertas/"

\* A BeautifulSoup lookup that found nothing (None)
Nulo == [nulo |-> TRUE]
Hay(tag) == "nulo" \notin DOMAIN tag


-----------------------------------------------------------------------------
(* State store.  The file is absent, unreadable, not parseable as JSON, or *)
(* holds a JSON value (datos).                                             *)

\* JSON values, as json.load returns them and json.dump writes them
JStr(s) == [t |-> "str", v |-> s]
JNum(n) == [t |-> "num", v |-> n]
JBool(b) == [t |-> "bool", v |-> b]
JNull == [t |-> "null"]
JArr(elems) == [t |-> "arr", v |-> elems]
JObj(campos) == [t |-> "obj", v |-> campos]

\* json.dump of a list of dicts whose values are all str
ToJson(empleos) ==
    JArr([i \in 1..Len(empleos) |->
            JObj([k \in DOMAIN empleos[i] |-> JStr(empleos[i][k])])])

Ausente == [cond |-> "ausente"]
Ilegible == [cond |-> "ilegible"]
Corrupto == [cond |-> "corrupto"]
Contenido(datos) == [cond |-> "ok", datos |-> datos]

\* os.path.exists false: falls through to return []; open or json.load raising:
\* caught, return []; otherwise whatever json.load returned
cargar_estado(f) == IF f.cond = "ok" THEN f.datos ELSE JArr(<<>>)

\* The file after guardar_estado(empleos).  open(..., 'w') raising leaves the file
\* as it was; once open has truncated it, a failing json.dump or flush leaves a
\* truncated or partial text, which is not JSON; the exception is caught either way
ResultadosEscritura == {"ok", "fallo_open", "fallo_dump"}

\* Mutation of guardar_estado: the listings are appended to those already on file
guardar_estado_Acumula(f, empleos, res) ==
    CASE res = "ok" -> IF f.cond = "ok" THEN Contenido(JArr(f.datos.v \o ToJson(empleos).v))
                       ELSE Contenido(ToJson(empleos))
      [] res = "fallo_open" -> f
      [] res = "fallo_dump" -> Corrupto

guardar_estado(f, empleos, res) ==
    CASE res = "ok" -> Contenido(ToJson(empleos))
      [] res = "fallo_open" -> f
      [] res = "fallo_dump" -> Corrupto

-----------------------------------------------------------------------------
(* Extraction *)

construir_enlace(elemento_enlace) ==
    IF ~Hay(elemento_enlace) THEN url_base
    ELSE LET href == elemento_enlace.href IN
         IF StartsWith(href, "http") THEN href
         ELSE IF StartsWith(href, "/") THEN "https://www.santafe.gob.ar" \o href
         ELSE url_base \o href

calcular_hash(titulo, empresa) == Md5(Strip(Lower(titulo \o empresa)))

\* tag.get_text(strip=True): every text node stripped, the empty ones dropped,
\* the rest joined with no separator
RECURSIVE UneRecortados(_)
UneRecortados(nodos) ==
    IF nodos = <<>> THEN "" ELSE Strip(Head(nodos)) \o UneRecortados(Tail(nodos))

get_text(tag) == UneRecortados(tag.nodos)

RECURSIVE Decimal(_)
Decimal(n) ==
    IF n < 10 THEN Car("0123456789", n + 1)
    ELSE Decimal(n \div 10) \o Car("0123456789", (n % 10) + 1)

\* datetime.now().isoformat(), for the clock reading ahora
Isoformat(ahora) == "T" \o Decimal(ahora)

\* The dict built for one container that has a title
Oferta(elemento, ahora) ==
    LET titulo_texto == get_text(elemento.titulo)
        empresa_texto == IF Hay(elemento.empresa) THEN get_text(elemento.empresa)
                         ELSE "Gobierno de Santa Fe"
    IN [titulo |-> titulo_texto,
        empresa |-> empresa_texto,
        ubicacion |-> IF Hay(elemento.ubicacion) THEN get_text(elemento.ubicacion)
                      ELSE "Santa Fe",
        enlace |-> construir_enlace(elemento.enlace),
        fecha_deteccion |-> Isoformat(ahora),
        hash |-> calcular_hash(titulo_texto, empresa_texto)]

\* The loop over elementos_ofertas: a container without title adds nothing and
\* does not read the clock; each container with a title takes the next reading
RECURSIVE Extraer(_, _)
Extraer(elementos, lecturas) ==
    IF elementos = <<>> THEN <<>>
    ELSE IF Hay(Head(elementos).titulo)
         THEN <<Oferta(Head(elementos), Head(lecturas))>>
              \o Extraer(Tail(elementos), Tail(lecturas))
         ELSE Extraer(Tail(elementos), lecturas)

\* requests.get / raise_for_status / BeautifulSoup raising: caught, ofertas stays []
obtener_ofertas(respuesta, lecturas) ==
    IF respuesta.tipo = "pagina" THEN Extraer(respuesta.elementos, lecturas) ELSE <<>>

-----------------------------------------------------------------------------
(* Diff *)

\* What "for emp in self.empleos_anteriores" yields: the elements of a list, the
\* keys of a dict, the characters of a str; a number, a bool and None give TypeError
Iterable(j) == j.t \in {"arr", "obj", "str"}

Items(j) ==
    CASE j.t = "arr" -> {j.v[i] : i \in 1..Len(j.v)}
      [] j.t = "obj" -> {JStr(k) : k \in DOMAIN j.v}
      [] j.t = "str" -> {JStr(Car(j.v, i)) : i \in 1..Len(j.v)}

\* emp['hash'] raises: KeyError for a dict without the key, TypeError for anything
\* that is not a dict
SubscriptLanza(emp) == emp.t # "obj" \/ "hash" \notin DOMAIN emp.v

\* Adding x to the set raises TypeError unless x is hashable: a str, a number, a
\* bool and None are, a list and a dict are not
Hashable(x) == x.t \notin {"arr", "obj"}

\* The set comprehension of line 141 raises
DetectarLanza(anteriores) ==
    \/ ~Iterable(anteriores)
    \/ \E emp \in Items(anteriores) :
          SubscriptLanza(emp) \/ ~Hashable(emp.v["hash"])

\* Mutation of detectar_nuevas_ofertas: whole records are compared, not fingerprints
detectar_nuevas_ofertas_PorRegistro(anteriores, actuales) ==
    SelectSeq(actuales, LAMBDA o : ToJson(<<o>>).v[1] \notin Items(anteriores))

detectar_nuevas_ofertas(anteriores, actuales) ==
    LET hashes_anteriores == {emp.v["hash"] : emp \in Items(anteriores)}
    IN SelectSeq(actuales, LAMBDA o : JStr(o.hash) \notin hashes_anteriores)

-----------------------------------------------------------------------------
(* Notifier *)

Limite == 10

Min(a, b) == IF a < b THEN a ELSE b

\* The four lines appended for entry i, and the blank line closing it
Entrada(i, oferta) ==
    << [linea |-> "titulo", i |-> i, titulo |-> oferta.titulo],
       [linea |-> "ubicacion", ubicacion |-> oferta.ubicacion],
       [linea |-> "empresa", empresa |-> oferta.empresa],
       [linea |-> "enlace", enlace |-> oferta.enlace],
       [linea |-> "blanco"] >>

RECURSIVE Entradas(_, _)
Entradas(ofertas, i) ==
    IF i > Len(ofertas) THEN <<>> ELSE Entrada(i, ofertas[i]) \o Entradas(ofertas, i + 1)

\* Mutation of Mensaje: the slice [:10] is missing
Mensaje_SinTope(nuevas) ==
    << [linea |-> "cabecera"],
       [linea |-> "cuenta", n |-> Len(nuevas)],
       [linea |-> "blanco"] >>
    \o Entradas(nuevas, 1)
    \o (IF Len(nuevas) > Limite
        THEN << [linea |-> "resto", n |-> Len(nuevas) - Limite] >>
        ELSE <<>>)

\* mensaje, as its sequence of lines
Mensaje(nuevas) ==
    << [linea |-> "cabecera"],
       [linea |-> "cuenta", n |-> Len(nuevas)],
       [linea |-> "blanco"] >>
    \o Entradas(SubSeq(nuevas, 1, Min(Len(nuevas), Limite)), 1)
    \o (IF Len(nuevas) > Limite
        THEN << [linea |-> "resto", n |-> Len(nuevas) - Limite] >>
        ELSE <<>>)

Configurado(token, chat_id) == ~(token = "" \/ chat_id = "")

\* Outcomes of requests.post(...) followed by raise_for_status()
ResultadosPost == {"entregado", "error_http", "error_transporte"}

\* What enviar_telegram returns
RetornoTelegram(token, chat_id, res) ==
    IF ~Configurado(token, chat_id) THEN FALSE ELSE res = "entregado"

\* How many POSTs enviar_telegram makes
PostsTelegram(token, chat_id, res) == IF Configurado(token, chat_id) THEN 1 ELSE 0

\* enviar_telegram(nuevas) when the POST, if made, ends as res: what it returns,
\* the POSTs it made and the text it sent
enviar_telegram(token, chat_id, nuevas, res) ==
    IF Configurado(token, chat_id)
    THEN [ret |-> RetornoTelegram(token, chat_id, res),
          posts |-> PostsTelegram(token, chat_id, res),
          texto |-> Mensaje(nuevas)]
    ELSE [ret |-> RetornoTelegram(token, chat_id, res),
          posts |-> PostsTelegram(token, chat_id, res)]

\* Mutation of TelegramLanza: the POST is made outside the try block
TelegramLanza_SinTry(token, chat_id, res) ==
    Configurado(token, chat_id) /\ res # "entregado"

\* Whether enviar_telegram lets an exception out
TelegramLanza(token, chat_id, res) == FALSE

-----------------------------------------------------------------------------
(* Inputs *)

Texto(s) == [nodos |-> <<s>>]
Nodos(ns) == [nodos |-> ns]
Enlace(h) == [href |-> h]

\* Containers of a fetched page
ElemChofer == [titulo |-> Texto(VT \o " Chofer"), empresa |-> Texto(FS \o "ACME" \o GS),
               ubicacion |-> Texto("Rosario " \o US), enlace |-> Enlace("/ofertas/5")]
ElemCocinero == [titulo |-> Nodos(<<"Cocinero\f", RS, "de", " barco ">>), empresa |-> Nulo,
                 ubicacion |-> Nulo, enlace |-> Enlace("5")]
ElemPintor == [titulo |-> Nodos(<<"Pintor ", "de", " obra">>), empresa |-> Texto("ACME"),
               ubicacion |-> Texto("Rafaela"), enlace |-> Nulo]
ElemSinTitulo == [titulo |-> Nulo, empresa |-> Texto("ACME"),
                  ubicacion |-> Nulo, enlace |-> Enlace("https://x.com/a")]

Elementos == {ElemChofer, ElemCocinero, ElemSinTitulo}

SeqHasta(S, n) == UNION {[1..k -> S] : k \in 0..n}

\* How many clock readings a response takes: one for each container with a title
Titulados(respuesta) ==
    IF respuesta.tipo = "pagina"
    THEN Len(SelectSeq(respuesta.elementos, LAMBDA e : Hay(e.titulo)))
    ELSE 0

\* The n readings of datetime.now() that run number r can take: the clock stands
\* at 2r or at 2r + 1 and does not go back
Lecturas(r, n) ==
    {l \in [1..n -> {2 * r, 2 * r + 1}] : \A i \in 1..(n - 1) : l[i] <= l[i + 1]}

\* What the GET and the parse can give
Respuestas ==
    {[tipo |-> "error_transporte"], [tipo |-> "error_http"], [tipo |-> "error_parse"]}
    \cup {[tipo |-> "pagina", elementos |-> e] : e \in SeqHasta(Elementos, MaxElementos)}

\* State files that hold JSON of another shape than a list of listings
Malformado == Contenido(JArr(<< JObj([titulo |-> JStr("Chofer"), empresa |-> JStr("ACME")]) >>))
HashLista == Contenido(JArr(<< JObj([hash |-> JArr(<< JStr("x") >>)]) >>))
ListaDeTextos == Contenido(JArr(<< JStr("abc") >>))
UnSoloObjeto == Contenido(JObj([hash |-> JStr("x")]))
UnNumero == Contenido(JNum(5))
Nada == Contenido(JNull)
ObjetoVacio == Contenido(JObj(<<>>))
HashNumero == Contenido(JArr(<< JObj([hash |-> JNum(5)]) >>))

\* The state file before the first run
ArchivosIniciales ==
    {Ausente, Ilegible, Corrupto, Contenido(JArr(<<>>)),
     Malformado, HashLista, ListaDeTextos, UnSoloObjeto, UnNumero, Nada,
     ObjetoVacio, HashNumero}

SinLlamada == [op |-> "ninguna"]

-----------------------------------------------------------------------------
(* Run controller: one process is MonitorEmpleoCloud() followed by ejecutar() *)

Init ==
    /\ archivo \in ArchivosIniciales
    /\ pc = "inicio"
    /\ reloj = 0
    /\ telegram_bot_token = ""
    /\ telegram_chat_id = ""
    /\ empleos_anteriores = JArr(<<>>)
    /\ ofertas_actuales = <<>>
    /\ nuevas_ofertas = <<>>
    /\ traza = <<>>
    /\ posts = 0
    /\ archivo_previo = archivo
    /\ ultimo_fetch = <<>>
    /\ penultimo = {}
    /\ escrituras_ok = TRUE
    /\ llamada = SinLlamada
    /\ resultado = Nulo

\* Mutation of AbortaSinOfertas: the empty-fetch check is missing
AbortaSinOfertas_Nunca(ofertas) == FALSE

\* if not ofertas_actuales: warn and return
AbortaSinOfertas(ofertas) == ofertas = <<>>

\* if nuevas_ofertas: enviar_telegram(nuevas_ofertas)
DebeNotificar(nuevas) == nuevas # <<>>

\* Mutation of ListaAGuardar: only the new listings are persisted
ListaAGuardar_SoloNuevas(actuales, nuevas) == nuevas

\* The list ejecutar hands to guardar_estado
ListaAGuardar(actuales, nuevas) == actuales

\* The scheduler starts a process, unless tope processes have run: __init__ reads
\* the environment and loads the state
Arrancar(tope) ==
    /\ pc \in {"inicio", "fin", "crash"}
    /\ reloj < tope
    /\ \E token \in {"", "TOKEN"}, chat_id \in {"", "CHAT"} :
          /\ telegram_bot_token' = token
          /\ telegram_chat_id' = chat_id
    /\ reloj' = reloj + 1
    /\ empleos_anteriores' = cargar_estado(archivo)
    /\ ofertas_actuales' = <<>>
    /\ nuevas_ofertas' = <<>>
    /\ traza' = <<>>
    /\ posts' = 0
    /\ archivo_previo' = archivo
    /\ ultimo_fetch' = IF ~escrituras_ok THEN <<>>
                       ELSE IF ofertas_actuales # <<>> THEN ofertas_actuales
                       ELSE ultimo_fetch
    /\ penultimo' = IF ~escrituras_ok THEN {}
                    ELSE IF ofertas_actuales # <<>>
                         THEN {ultimo_fetch[i].hash : i \in 1..Len(ultimo_fetch)}
                    ELSE penultimo
    /\ pc' = "construido"
    /\ UNCHANGED <<archivo, escrituras_ok, llamada, resultado>>

Construir == Arrancar(MaxEjecuciones)

\* ejecutar, to the return on an empty fetch
ObtenerOfertas ==
    /\ pc = "construido"
    /\ \E respuesta \in Respuestas :
          \E lecturas \in Lecturas(reloj, Titulados(respuesta)) :
             ofertas_actuales' = obtener_ofertas(respuesta, lecturas)
    /\ pc' = IF AbortaSinOfertas(ofertas_actuales') THEN "fin" ELSE "obtenido"
    /\ UNCHANGED <<archivo, reloj, telegram_bot_token, telegram_chat_id,
                   empleos_anteriores, nuevas_ofertas, traza, posts, archivo_previo,
                   ultimo_fetch, penultimo, escrituras_ok, llamada, resultado>>

\* ejecutar: detectar_nuevas_ofertas, then generar_resumen (prints only)
Detectar ==
    /\ pc = "obtenido"
    /\ IF DetectarLanza(empleos_anteriores)
       THEN /\ pc' = "crash"
            /\ UNCHANGED nuevas_ofertas
       ELSE /\ nuevas_ofertas' = detectar_nuevas_ofertas(empleos_anteriores, ofertas_actuales)
            /\ pc' = IF DebeNotificar(nuevas_ofertas') THEN "por_notificar" ELSE "por_guardar"
    /\ UNCHANGED <<archivo, reloj, telegram_bot_token, telegram_chat_id,
                   empleos_anteriores, ofertas_actuales, traza, posts, archivo_previo,
                   ultimo_fetch, penultimo, escrituras_ok, llamada, resultado>>

\* ejecutar: enviar_telegram(nuevas_ofertas)
EnviarTelegram ==
    /\ pc = "por_notificar"
    /\ \E res \in ResultadosPost :
          LET envio == enviar_telegram(telegram_bot_token, telegram_chat_id,
                                       nuevas_ofertas, res) IN
          /\ traza' = Append(traza,
                 [op |-> "enviar_telegram", arg |-> nuevas_ofertas,
                  res |-> IF Configurado(telegram_bot_token, telegram_chat_id)
                          THEN res ELSE "no_configurado",
                  ret |-> envio.ret])
          /\ posts' = posts + envio.posts
          /\ pc' = IF TelegramLanza(telegram_bot_token, telegram_chat_id, res)
                   THEN "crash" ELSE "por_guardar"
    /\ UNCHANGED <<archivo, reloj, telegram_bot_token, telegram_chat_id,
                   empleos_anteriores, ofertas_actuales, nuevas_ofertas, archivo_previo,
                   ultimo_fetch, penultimo, escrituras_ok, llamada, resultado>>

\* ejecutar: guardar_estado(ofertas_actuales), and the return
GuardarEstado ==
    /\ pc = "por_guardar"
    /\ \E res \in ResultadosEscritura :
          LET empleos == ListaAGuardar(ofertas_actuales, nuevas_ofertas) IN
          /\ archivo' = guardar_estado(archivo, empleos, res)
          /\ traza' = Append(traza, [op |-> "guardar_estado", arg |-> empleos, res |-> res])
          /\ escrituras_ok' = (escrituras_ok /\ res = "ok")
    /\ pc' = "fin"
    /\ UNCHANGED <<reloj, telegram_bot_token, telegram_chat_id, empleos_anteriores,
                   ofertas_actuales, nuevas_ofertas, posts, archivo_previo,
                   ultimo_fetch, penultimo, llamada, resultado>>

Next == Construir \/ ObtenerOfertas \/ Detectar \/ EnviarTelegram \/ GuardarEstado

Spec == Init /\ [][Next]_vars

\* A deployment from its first run on: there is no state file yet, and every later
\* run finds what the runs before it left
InitHistoria == Init /\ archivo = Ausente

ConstruirHistoria == Arrancar(MaxHistoria)

NextHistoria ==
    ConstruirHistoria \/ ObtenerOfertas \/ Detectar \/ EnviarTelegram \/ GuardarEstado

SpecHistoria == InitHistoria /\ [][NextHistoria]_vars

-----------------------------------------------------------------------------
(* Properties of a run *)

\* Positions of the calls of op in this run's trace
Llamadas(op) == {i \in 1..Len(traza) : traza[i].op = op}

HashesDe(lista) == {lista[i].hash : i \in 1..Len(lista)}

\* The list of listings that a state written by guardar_estado stands for
Listado(j) == [i \in 1..Len(j.v) |-> [k \in DOMAIN j.v[i].v |-> j.v[i].v[k].v]]

\* The file holds exactly the list lista, as a JSON array
ArchivoEs(lista) == archivo.cond = "ok" /\ archivo.datos = ToJson(lista)

\* The fingerprints held by a state that loaded and was read without error
HashesPrevios(j) ==
    IF j.t = "arr" THEN {j.v[i].v["hash"] : i \in 1..Len(j.v)} ELSE {}

\* Positions of actuales whose fingerprint does not occur in the loaded state
Ausentes(actuales, anteriores) ==
    {i \in 1..Len(actuales) : JStr(actuales[i].hash) \notin HashesPrevios(anteriores)}

\* r is the subsequence of actuales at the positions Ausentes, in order
EsDiff(r, actuales, anteriores) ==
    LET K == Ausentes(actuales, anteriores)
    IN /\ Len(r) = Cardinality(K)
       /\ \A i \in K : r[Cardinality({j \in K : j <= i})] = actuales[i]

FetchNoVacio == pc \notin {"inicio", "construido"} /\ ofertas_actuales # <<>>

\* C1: a run whose fetch yields no record calls neither enviar_telegram nor
\* guardar_estado, makes no POST, and leaves the state file as it found it.
C1_FetchVacioNoToca ==
    (pc = "fin" /\ ofertas_actuales = <<>>) =>
        /\ traza = <<>>
        /\ posts = 0
        /\ archivo = archivo_previo

\* An empty fetch ended a run that had a non-empty snapshot to lose
C1_Testigo ==
    /\ pc = "fin"
    /\ ofertas_actuales = <<>>
    /\ ultimo_fetch # <<>>
    /\ archivo = archivo_previo
    /\ ArchivoEs(ultimo_fetch)

\* C2 as stated: after a run with a non-empty fetch the notifier was called at most
\* once, exactly when the diff is non-empty, with the diff, before the state write,
\* and the state file holds the full fetch.
C2_Original ==
    (pc = "fin" /\ ofertas_actuales # <<>>) =>
        /\ Cardinality(Llamadas("enviar_telegram")) <= 1
        /\ Llamadas("enviar_telegram") # {}
              <=> Ausentes(ofertas_actuales, empleos_anteriores) # {}
        /\ \A i \in Llamadas("enviar_telegram") :
              /\ EsDiff(traza[i].arg, ofertas_actuales, empleos_anteriores)
              /\ \A j \in Llamadas("guardar_estado") : i < j
        /\ ArchivoEs(ofertas_actuales)

\* C2 as amended: in a run with a non-empty fetch the notifier is called at most
\* once, only with the diff against the loaded state and only before the state
\* write; when the run reaches the state write the notifier has been called exactly
\* when the diff is non-empty; the write is handed the full fetch, and when it
\* succeeds the state file holds exactly the full fetch in fetch order.
C2_NotificaYReemplaza ==
    FetchNoVacio =>
        /\ Cardinality(Llamadas("enviar_telegram")) <= 1
        /\ Cardinality(Llamadas("guardar_estado")) <= 1
        /\ \A i \in Llamadas("enviar_telegram") :
              /\ EsDiff(traza[i].arg, ofertas_actuales, empleos_anteriores)
              /\ \A j \in Llamadas("guardar_estado") : i < j
        /\ \A j \in Llamadas("guardar_estado") :
              /\ Llamadas("enviar_telegram") # {}
                    <=> Ausentes(ofertas_actuales, empleos_anteriores) # {}
              /\ traza[j].arg = ofertas_actuales
              /\ traza[j].res = "ok" => ArchivoEs(ofertas_actuales)
        /\ pc = "fin" => Llamadas("guardar_estado") # {}

\* Prior state and fetch overlap: the notifier got a proper, non-empty part of
\* the fetch and the file now holds the whole fetch
C2_Testigo ==
    /\ pc = "fin"
    /\ empleos_anteriores = ToJson(ultimo_fetch)
    /\ ultimo_fetch # <<>>
    /\ \E i \in Llamadas("enviar_telegram") :
          /\ traza[i].arg # <<>>
          /\ Len(traza[i].arg) < Len(ofertas_actuales)
    /\ ArchivoEs(ofertas_actuales)
    /\ archivo # archivo_previo

\* C6: enviar_telegram makes at most one POST (none when not configured), lets no
\* exception out, returns true only when the message was delivered, and the run
\* goes on to hand the full fetch to guardar_estado.
C6_TelegramFalloSuave ==
    /\ posts <= 1
    /\ \A i \in Llamadas("enviar_telegram") :
          /\ pc \in {"por_guardar", "fin"}
          /\ traza[i].ret = (traza[i].res = "entregado")
          /\ posts = IF traza[i].res = "no_configurado" THEN 0 ELSE 1
          /\ pc = "fin" =>
                \E j \in Llamadas("guardar_estado") :
                    i < j /\ traza[j].arg = ofertas_actuales

\* A run whose POST failed in transport still wrote the state
C6_Testigo ==
    /\ pc = "fin"
    /\ \E i \in Llamadas("enviar_telegram") :
          traza[i].res = "error_transporte" /\ traza[i].ret = FALSE
    /\ ArchivoEs(ofertas_actuales)

\* C7: no process ends by an uncaught exception.
C7_SinErrorNoCapturado == pc # "crash"

\* C9: after a run whose state write failed, the next load gives the same prior
\* state as the load at the start of that run.
C9_EscrituraFallidaConserva ==
    (pc = "fin" /\ \E j \in Llamadas("guardar_estado") : traza[j].res # "ok") =>
        cargar_estado(archivo) = cargar_estado(archivo_previo)

\* C10: in a deployment whose state writes have all succeeded, a listing of a
\* non-empty fetch is reported as new exactly when its fingerprint is absent from
\* the fetch of the latest earlier run whose fetch was non-empty (from no fetch at
\* all when there is no such run), and the run does not end by an error.
C10_NuevaSiiAusente ==
    /\ escrituras_ok => pc # "crash"
    /\ (escrituras_ok /\ ofertas_actuales # <<>>
           /\ pc \in {"por_notificar", "por_guardar", "fin"}) =>
          \A i \in 1..Len(ofertas_actuales) :
              (\E k \in 1..Len(nuevas_ofertas) : nuevas_ofertas[k] = ofertas_actuales[i])
                  <=> ofertas_actuales[i].hash \notin HashesDe(ultimo_fetch)

\* A third run: one listing was fetched by the first run and not by the second,
\* whose fetch was not empty, and is reported as new again; another was fetched by
\* the second run and is not reported
C10_Testigo ==
    /\ pc = "fin"
    /\ escrituras_ok
    /\ reloj = 3
    /\ ultimo_fetch # <<>>
    /\ \E i \in 1..Len(ofertas_actuales) :
          /\ ofertas_actuales[i].hash \in penultimo \ HashesDe(ultimo_fetch)
          /\ \E k \in 1..Len(nuevas_ofertas) : nuevas_ofertas[k] = ofertas_actuales[i]
    /\ \E i \in 1..Len(ofertas_actuales) :
          /\ ofertas_actuales[i].hash \in HashesDe(ultimo_fetch)
          /\ \A k \in 1..Len(nuevas_ofertas) : nuevas_ofertas[k] # ofertas_actuales[i]

-----------------------------------------------------------------------------
(* Direct calls of one method on a constructed monitor *)

Retorno(v) == [ret |-> v]

\* The monitor as constructed with no state file, outside any run
Reposo ==
    /\ archivo = Ausente
    /\ pc = "directo"
    /\ reloj = 0
    /\ ofertas_actuales = <<>>
    /\ nuevas_ofertas = <<>>
    /\ traza = <<>>
    /\ posts = 0
    /\ archivo_previo = Ausente
    /\ ultimo_fetch = <<>>
    /\ penultimo = {}
    /\ escrituras_ok = TRUE
    /\ resultado = Nulo

ConCredenciales == telegram_bot_token = "TOKEN" /\ telegram_chat_id = "CHAT"

varsRun == <<archivo, pc, reloj, telegram_bot_token, telegram_chat_id,
             empleos_anteriores, ofertas_actuales, nuevas_ofertas, traza, posts,
             archivo_previo, ultimo_fetch, penultimo, escrituras_ok>>

CadenasHasta(alfabeto, n) == {Une(cs) : cs \in SeqHasta(alfabeto, n)}

(* detectar_nuevas_ofertas *)

ElemChoferMayus == [titulo |-> Texto("CHOFER"), empresa |-> Texto("acme"),
                    ubicacion |-> Nulo, enlace |-> Nulo]

\* Records with three fingerprints, two of them sharing one
OfertasDiff == {Oferta(ElemChofer, 1), Oferta(ElemCocinero, 1), Oferta(ElemPintor, 1),
                Oferta(ElemChoferMayus, 2)}

InitDiff ==
    /\ Reposo
    /\ ConCredenciales
    /\ \E anteriores \in SeqHasta(OfertasDiff, MaxLista) :
          empleos_anteriores = ToJson(anteriores)
    /\ \E actuales \in SeqHasta(OfertasDiff, MaxLista) :
          llamada = [op |-> "detectar_nuevas_ofertas", ofertas_actuales |-> actuales]

LlamarDetectar ==
    /\ llamada.op = "detectar_nuevas_ofertas"
    /\ ~Hay(resultado)
    /\ resultado' = Retorno(detectar_nuevas_ofertas(empleos_anteriores,
                                                    llamada.ofertas_actuales))
    /\ UNCHANGED <<varsRun, llamada>>

SpecDiff == InitDiff /\ [][LlamarDetectar]_vars

(* calcular_hash *)

Textos == CadenasHasta({"a", "A", " ", "\f", VT}, MaxTexto)

InitHash ==
    /\ Reposo
    /\ ConCredenciales
    /\ empleos_anteriores = JArr(<<>>)
    /\ \E t1 \in Textos, e1 \in Textos, t2 \in Textos, e2 \in Textos :
          llamada = [op |-> "calcular_hash",
                     a |-> [titulo |-> t1, empresa |-> e1],
                     b |-> [titulo |-> t2, empresa |-> e2]]

LlamarCalcularHash ==
    /\ llamada.op = "calcular_hash"
    /\ ~Hay(resultado)
    /\ resultado' = [a |-> calcular_hash(llamada.a.titulo, llamada.a.empresa),
                     b |-> calcular_hash(llamada.b.titulo, llamada.b.empresa)]
    /\ UNCHANGED <<varsRun, llamada>>

SpecHash == InitHash /\ [][LlamarCalcularHash]_vars

(* construir_enlace *)

Hrefs == CadenasHasta({"h", "t", "p", "/", "5"}, MaxHref)
         \cup {"https://x.com/a", "/ofertas/5", "http://x.com", "ofertas/5"}

InitEnlace ==
    /\ Reposo
    /\ ConCredenciales
    /\ empleos_anteriores = JArr(<<>>)
    /\ \E e \in {Nulo} \cup {Enlace(h) : h \in Hrefs} :
          llamada = [op |-> "construir_enlace", elemento_enlace |-> e]

LlamarConstruirEnlace ==
    /\ llamada.op = "construir_enlace"
    /\ ~Hay(resultado)
    /\ resultado' = Retorno(construir_enlace(llamada.elemento_enlace))
    /\ UNCHANGED <<varsRun, llamada>>

SpecEnlace == InitEnlace /\ [][LlamarConstruirEnlace]_vars

(* enviar_telegram *)

InitDigest ==
    /\ Reposo
    /\ telegram_bot_token \in {"", "TOKEN"}
    /\ telegram_chat_id \in {"", "CHAT"}
    /\ empleos_anteriores = JArr(<<>>)
    /\ \E nuevas \in SeqHasta({Oferta(ElemChofer, 1), Oferta(ElemCocinero, 1)}, MaxNuevas) :
          llamada = [op |-> "enviar_telegram", nuevas_ofertas |-> nuevas]

\* One call of enviar_telegram, from the credentials check to the return
LlamarEnviarTelegram ==
    /\ llamada.op = "enviar_telegram"
    /\ ~Hay(resultado)
    /\ \E res \in ResultadosPost :
          LET envio == enviar_telegram(telegram_bot_token, telegram_chat_id,
                                       llamada.nuevas_ofertas, res) IN
          /\ resultado' = envio
          /\ posts' = posts + envio.posts
    /\ UNCHANGED <<archivo, pc, reloj, telegram_bot_token, telegram_chat_id,
                   empleos_anteriores, ofertas_actuales, nuevas_ofertas, traza,
                   archivo_previo, ultimo_fetch, penultimo, escrituras_ok, llamada>>

SpecDigest == InitDigest /\ [][LlamarEnviarTelegram]_vars

-----------------------------------------------------------------------------
(* Properties of the methods *)

\* C3: detectar_nuevas_ofertas returns the records of the current list whose
\* fingerprint does not occur in the previous list, in the current list's order:
\* all of it when the previous list is empty or shares no fingerprint with it,
\* nothing when every fingerprint of the current list occurs in the previous one.
C3_DiffSubsecuencia ==
    Hay(resultado) =>
        LET r == resultado.ret
            actuales == llamada.ofertas_actuales
        IN /\ EsDiff(r, actuales, empleos_anteriores)
           /\ Listado(empleos_anteriores) = <<>> => r = actuales
           /\ HashesDe(actuales) \cap HashesDe(Listado(empleos_anteriores)) = {}
                 => r = actuales
           /\ HashesDe(actuales) \subseteq HashesDe(Listado(empleos_anteriores))
                 => r = <<>>

\* A call that dropped a record whose fingerprint, but not the record itself, was
\* in the previous list, and kept two others in order
C3_Testigo ==
    /\ Hay(resultado)
    /\ Len(resultado.ret) = 2
    /\ Len(llamada.ofertas_actuales) = 3
    /\ resultado.ret[1] # resultado.ret[2]
    /\ \E i \in 1..3 :
          /\ llamada.ofertas_actuales[i].hash \in HashesDe(Listado(empleos_anteriores))
          /\ \A k \in 1..Len(empleos_anteriores.v) :
                Listado(empleos_anteriores)[k] # llamada.ofertas_actuales[i]

\* C4: two (title, employer) pairs whose titles agree after lower-casing and
\* trimming, and whose employers do too, get the same fingerprint.
C4_VariantesColapsan ==
    (/\ Hay(resultado)
     /\ Strip(Lower(llamada.a.titulo)) = Strip(Lower(llamada.b.titulo))
     /\ Strip(Lower(llamada.a.empresa)) = Strip(Lower(llamada.b.empresa)))
        => resultado.a = resultado.b

\* C5: no anchor gives the portal URL; an href starting with http is returned as
\* it is; an href starting with "/" is prefixed with the origin; any other href is
\* appended to the search path url_busqueda.
C5_EnlaceResuelto ==
    Hay(resultado) =>
        LET e == llamada.elemento_enlace IN
        IF ~Hay(e) THEN resultado.ret = url_base
        ELSE IF StartsWith(e.href, "http") THEN resultado.ret = e.href
        ELSE IF StartsWith(e.href, "/")
             THEN resultado.ret = "https://www.santafe.gob.ar" \o e.href
        ELSE resultado.ret = url_busqueda \o e.href

LineasDe(m, tipo) == SelectSeq(m, LAMBDA l : l.linea = tipo)

\* C8: for n >= 1 new listings the message sent has a header, a count line stating n,
\* the title, location, employer and link lines of the first min(n, 10) listings
\* in order, numbered from 1, and a closing "n - 10 more" line exactly when n > 10.
C8_DigestoTopado ==
    (Hay(resultado) /\ "texto" \in DOMAIN resultado /\ llamada.nuevas_ofertas # <<>>) =>
        LET nuevas == llamada.nuevas_ofertas
            n == Len(nuevas)
            m == resultado.texto
            k == IF n < 10 THEN n ELSE 10
        IN /\ m[1].linea = "cabecera"
           /\ m[2] = [linea |-> "cuenta", n |-> n]
           /\ Len(LineasDe(m, "cuenta")) = 1
           /\ Len(LineasDe(m, "titulo")) = k
           /\ Len(LineasDe(m, "ubicacion")) = k
           /\ Len(LineasDe(m, "empresa")) = k
           /\ Len(LineasDe(m, "enlace")) = k
           /\ \A i \in 1..k :
                 /\ LineasDe(m, "titulo")[i]
                       = [linea |-> "titulo", i |-> i, titulo |-> nuevas[i].titulo]
                 /\ LineasDe(m, "ubicacion")[i].ubicacion = nuevas[i].ubicacion
                 /\ LineasDe(m, "empresa")[i].empresa = nuevas[i].empresa
                 /\ LineasDe(m, "enlace")[i].enlace = nuevas[i].enlace
           /\ Len(LineasDe(m, "resto")) = IF n > 10 THEN 1 ELSE 0
           /\ n > 10 => m[Len(m)] = [linea |-> "resto", n |-> n - 10]

\* A message for twelve listings: ten entries and "2 more"
C8_Testigo ==
    /\ Hay(resultado)
    /\ posts = 1
    /\ Len(llamada.nuevas_ofertas) = 12
    /\ Len(LineasDe(resultado.texto, "titulo")) = 10
    /\ resultado.texto[Len(resultado.texto)] = [linea |-> "resto", n |-> 2]

====
